---- MODULE Spec2Model ----
(***************************************************************************)
(* Model of the chat client's conversation component                       *)
(* (src/src/components/Generator.tsx): the session signals, the persisted  *)
(* per-role history in localStorage, the event handlers, and the           *)
(* asynchronous generation request with its suspension points; and of the  *)
(* settings panel (src/src/components/Setting.tsx) with the settings       *)
(* signal that the conversation component owns.                            *)
(*                                                                         *)
(* Text is a sequence of tokens: '' is <<>>, string concatenation is \o.   *)
(* The token "NL" is the one-character string '\n', the token "Warn" is    *)
(* the error marker of line 178.                                           *)
(***************************************************************************)
EXTENDS Naturals, Sequences, FiniteSets, TLC

VARIABLES
    roles,                    \* roles(): the fetched registry, <<>> before the fetch
    currentRole,              \* currentRole(): a role identifier, or NoRole for null
    messageList,              \* messageList()
    currentAssistantMessage,  \* currentAssistantMessage(): the partial buffer
    loading,                  \* loading()
    controller,               \* controller(): index into reqs, 0 for null
    storage,                  \* localStorage[CHAT_HISTORY_KEY]
    reqs,                     \* the requestWithLatestMessage calls made so far
    visited,                  \* history variable: the roles that have been active
    last,                     \* history variable: how the latest finished request ended
    setting,                  \* setting(): a map from property names to values
    settingStore,             \* localStorage["setting"]
    settingLoaded             \* onMount has run its lines 53-55

sessionVars == <<roles, currentRole, messageList, currentAssistantMessage, loading,
                 controller, storage, reqs, visited, last>>

settingVars == <<setting, settingStore, settingLoaded>>

vars == <<sessionVars, settingVars>>

----------------------------------------------------------------------------
(* Bounds *)

MaxRequests == 2

MaxStored == 17

----------------------------------------------------------------------------
(* Roles, messages, errors *)

NoRole == "null"

RoleList == <<"A", "B">>

RoleIds == {RoleList[i] : i \in 1..Len(RoleList)}

fc(r) == IF r = "A" THEN <<"fcA">> ELSE <<"fcB">>

Msg(speaker, text) == [role |-> speaker, content |-> text]

welcomeMessage(r) == Msg("assistant", fc(r))

Inputs == {<<>>, <<"SP">>, <<"q">>, <<"SP", "q", "NL">>}

(* Response bodies: the chunks the transport delivers before it closes *)
Streams ==
    {<<>>, <<<<"x">>>>, <<<<"x">>, <<"y">>>>, <<<<"x">>, <<"NL">>, <<"NL">>>>}

AbortError == [name |-> "AbortError", message |-> "The user aborted a request."]

StatusError == [name |-> "Error", message |-> "statusText"]

NoDataError == [name |-> "Error", message |-> "No data"]

NetworkError == [name |-> "TypeError", message |-> "Failed to fetch"]

ErrorText(e) == <<"ErrPrefix", e.message>>

----------------------------------------------------------------------------
(* Persistence adapter *)

EmptyMap == [r \in {} |-> <<>>]

loadChatHistory(st) == IF st.valid THEN st.map ELSE EmptyMap

saveChatHistory(history) == [valid |-> TRUE, map |-> history]

(* Variant: the history map is rebuilt from scratch instead of loaded *)
saveCurrentMessages_overwrite(st, roleToSave, messagesToSave) ==
    saveChatHistory(roleToSave :> messagesToSave)

saveCurrentMessages(st, roleToSave, messagesToSave) ==
    saveChatHistory((roleToSave :> messagesToSave) @@ loadChatHistory(st))

Persisted(st, r) ==
    LET h == loadChatHistory(st) IN IF r \in DOMAIN h THEN h[r] ELSE <<>>

----------------------------------------------------------------------------
(* The session as a record, so that handlers compose as the code's calls do *)

Sess ==
    [currentRole |-> currentRole, messageList |-> messageList,
     currentAssistantMessage |-> currentAssistantMessage,
     loading |-> loading, controller |-> controller,
     storage |-> storage, reqs |-> reqs]

Finished(aborted) ==
    [pc |-> "done", aborted |-> aborted, role |-> NoRole, messages |-> <<>>,
     body |-> <<>>, stream |-> <<>>, commits |-> 0, cause |-> "none"]

Collect(rs, ctl) ==
    [i \in 1..Len(rs) |->
        IF rs[i].pc = "done" THEN Finished(ctl = i /\ rs[i].aborted) ELSE rs[i]]

Commit(t) ==
    /\ currentRole' = t.currentRole
    /\ messageList' = t.messageList
    /\ currentAssistantMessage' = t.currentAssistantMessage
    /\ loading' = t.loading
    /\ controller' = t.controller
    /\ storage' = t.storage
    /\ reqs' = Collect(t.reqs, t.controller)

abort(s) ==
    IF s.controller # 0
    THEN [s EXCEPT !.reqs[s.controller].aborted = TRUE]
    ELSE s

signalAborted(s) == s.controller # 0 /\ s.reqs[s.controller].aborted

(* Variant: the synthesized welcome message is shown but not persisted *)
handleRoleChange_noSeedSave(s, newRole, history) ==
    LET oldRole == s.currentRole
        s1 == IF oldRole # NoRole /\ oldRole # newRole
              THEN [s EXCEPT !.storage = saveCurrentMessages(s.storage, oldRole, s.messageList)]
              ELSE s
        hist == IF history.given THEN history.map ELSE loadChatHistory(s1.storage)
        newRoleHistory == IF newRole \in DOMAIN hist THEN hist[newRole] ELSE <<>>
        s2 == IF Len(newRoleHistory) > 0
              THEN [s1 EXCEPT !.currentRole = newRole, !.messageList = newRoleHistory]
              ELSE [s1 EXCEPT !.currentRole = newRole,
                              !.messageList = <<welcomeMessage(newRole)>>]
        s3 == abort([s2 EXCEPT !.currentAssistantMessage = <<>>, !.loading = FALSE])
    IN  [s3 EXCEPT !.controller = 0]

(* Variant: the handle is dropped without aborting its request *)
handleRoleChange_noAbort(s, newRole, history) ==
    LET oldRole == s.currentRole
        s1 == IF oldRole # NoRole /\ oldRole # newRole
              THEN [s EXCEPT !.storage = saveCurrentMessages(s.storage, oldRole, s.messageList)]
              ELSE s
        hist == IF history.given THEN history.map ELSE loadChatHistory(s1.storage)
        newRoleHistory == IF newRole \in DOMAIN hist THEN hist[newRole] ELSE <<>>
        s2 == IF Len(newRoleHistory) > 0
              THEN [s1 EXCEPT !.currentRole = newRole, !.messageList = newRoleHistory]
              ELSE [s1 EXCEPT !.currentRole = newRole,
                              !.messageList = <<welcomeMessage(newRole)>>,
                              !.storage = saveChatHistory(
                                  (newRole :> <<welcomeMessage(newRole)>>)
                                      @@ loadChatHistory(s1.storage))]
    IN  [s2 EXCEPT !.currentAssistantMessage = <<>>, !.loading = FALSE,
                   !.controller = 0]

(* Variant: the partial buffer survives the switch *)
handleRoleChange_keepBuffer(s, newRole, history) ==
    LET oldRole == s.currentRole
        s1 == IF oldRole # NoRole /\ oldRole # newRole
              THEN [s EXCEPT !.storage = saveCurrentMessages(s.storage, oldRole, s.messageList)]
              ELSE s
        hist == IF history.given THEN history.map ELSE loadChatHistory(s1.storage)
        newRoleHistory == IF newRole \in DOMAIN hist THEN hist[newRole] ELSE <<>>
        s2 == IF Len(newRoleHistory) > 0
              THEN [s1 EXCEPT !.currentRole = newRole, !.messageList = newRoleHistory]
              ELSE [s1 EXCEPT !.currentRole = newRole,
                              !.messageList = <<welcomeMessage(newRole)>>,
                              !.storage = saveChatHistory(
                                  (newRole :> <<welcomeMessage(newRole)>>)
                                      @@ loadChatHistory(s1.storage))]
        s3 == abort([s2 EXCEPT !.loading = FALSE])
    IN  [s3 EXCEPT !.controller = 0]

handleRoleChange(s, newRole, history) ==
    LET oldRole == s.currentRole
        s1 == IF oldRole # NoRole /\ oldRole # newRole
              THEN [s EXCEPT !.storage = saveCurrentMessages(s.storage, oldRole, s.messageList)]
              ELSE s
        hist == IF history.given THEN history.map ELSE loadChatHistory(s1.storage)
        newRoleHistory == IF newRole \in DOMAIN hist THEN hist[newRole] ELSE <<>>
        s2 == IF Len(newRoleHistory) > 0
              THEN [s1 EXCEPT !.currentRole = newRole, !.messageList = newRoleHistory]
              ELSE [s1 EXCEPT !.currentRole = newRole,
                              !.messageList = <<welcomeMessage(newRole)>>,
                              !.storage = saveChatHistory(
                                  (newRole :> <<welcomeMessage(newRole)>>)
                                      @@ loadChatHistory(s1.storage))]
        s3 == abort([s2 EXCEPT !.currentAssistantMessage = <<>>, !.loading = FALSE])
    IN  [s3 EXCEPT !.controller = 0]

(* Variant: the archive leaves the partial buffer in place *)
archiveCurrentMessage_keepBuffer(s) ==
    IF s.currentAssistantMessage # <<>> /\ s.currentRole # NoRole
    THEN LET newMessages ==
                 Append(s.messageList, Msg("assistant", s.currentAssistantMessage))
         IN  [s EXCEPT !.messageList = newMessages,
                       !.storage = saveCurrentMessages(s.storage, s.currentRole, newMessages),
                       !.loading = FALSE,
                       !.controller = 0]
    ELSE s

(* Variant: the archive appends on screen only *)
archiveCurrentMessage_noSave(s) ==
    IF s.currentAssistantMessage # <<>> /\ s.currentRole # NoRole
    THEN [s EXCEPT !.messageList =
                       Append(s.messageList, Msg("assistant", s.currentAssistantMessage)),
                   !.currentAssistantMessage = <<>>,
                   !.loading = FALSE,
                   !.controller = 0]
    ELSE s

archiveCurrentMessage(s) ==
    IF s.currentAssistantMessage # <<>> /\ s.currentRole # NoRole
    THEN LET newMessages ==
                 Append(s.messageList, Msg("assistant", s.currentAssistantMessage))
         IN  [s EXCEPT !.messageList = newMessages,
                       !.storage = saveCurrentMessages(s.storage, s.currentRole, newMessages),
                       !.currentAssistantMessage = <<>>,
                       !.loading = FALSE,
                       !.controller = 0]
    ELSE s

(* Variant: clear resets the list on screen only *)
clear_noSave(s) ==
    IF s.currentRole = NoRole
    THEN s
    ELSE [s EXCEPT !.messageList = <<welcomeMessage(s.currentRole)>>,
                   !.currentAssistantMessage = <<>>]

clear(s) ==
    IF s.currentRole = NoRole
    THEN s
    ELSE [s EXCEPT !.messageList = <<welcomeMessage(s.currentRole)>>,
                   !.currentAssistantMessage = <<>>,
                   !.storage = saveCurrentMessages(s.storage, s.currentRole,
                                                   <<welcomeMessage(s.currentRole)>>)]

----------------------------------------------------------------------------
(* Request construction, lines 173-181 *)

CapLimit == 15

KeepFirst == 3

KeepLast == 12

includesMarker(text) == \E i \in 1..Len(text) : text[i] = "Warn"

(* Variant: only assistant messages are filtered *)
withoutMarker_assistantOnly(item) ==
    item.role # "assistant" \/ ~includesMarker(item.content)

withoutMarker(item) == ~includesMarker(item.content)

slice(list, from, to) == SubSeq(list, from, to)

(* Variant: the first entry is dropped for its text, whoever wrote it *)
dropWelcome_anyRole(list, role, registry) ==
    IF /\ Len(list) > 0
       /\ \E i \in 1..Len(registry) : registry[i] = role /\ list[1].content = fc(role)
    THEN Tail(list)
    ELSE list

dropWelcome(list, role, registry) ==
    IF /\ Len(list) > 0
       /\ list[1].role = "assistant"
       /\ \E i \in 1..Len(registry) : registry[i] = role /\ list[1].content = fc(role)
    THEN Tail(list)
    ELSE list

(* Variant: the recency window is taken one entry too long *)
capMessages_offByOne(list) ==
    IF Len(list) > CapLimit
    THEN slice(list, 1, KeepFirst) \o slice(list, Len(list) - KeepLast, Len(list))
    ELSE list

(* Variant: the cap is not applied *)
capMessages_uncapped(list) == list

capMessages(list) ==
    IF Len(list) > CapLimit
    THEN slice(list, 1, KeepFirst) \o slice(list, Len(list) - KeepLast + 1, Len(list))
    ELSE list

requestMessageList(list, role, registry) ==
    capMessages(SelectSeq(dropWelcome(list, role, registry), withoutMarker))

----------------------------------------------------------------------------
(* The request engine, lines 166-217.  A request is suspended at `await     *)
(* fetch` (pc "fetch") or at `await reader.read()` (pc "read").             *)

requestWithLatestMessage(s, registry) ==
    IF s.currentRole = NoRole
    THEN s
    ELSE [s EXCEPT !.loading = TRUE,
                   !.currentAssistantMessage = <<>>,
                   !.controller = Len(s.reqs) + 1,
                   !.reqs = Append(s.reqs,
                       [pc |-> "fetch", aborted |-> FALSE, role |-> s.currentRole,
                        messages |-> requestMessageList(s.messageList, s.currentRole, registry),
                        body |-> <<>>, stream |-> <<>>, commits |-> 0,
                        cause |-> "none"])]

(* Variant: a chunk is put in front of the buffer *)
readChunk_prepend(s, char) ==
    IF char = <<"NL">> /\ s.currentAssistantMessage # <<>>
         /\ s.currentAssistantMessage[Len(s.currentAssistantMessage)] = "NL"
    THEN s
    ELSE IF char # <<>>
         THEN [s EXCEPT !.currentAssistantMessage = char \o s.currentAssistantMessage]
         ELSE s

readChunk(s, char) ==
    IF char = <<"NL">> /\ s.currentAssistantMessage # <<>>
         /\ s.currentAssistantMessage[Len(s.currentAssistantMessage)] = "NL"
    THEN s
    ELSE IF char # <<>>
         THEN [s EXCEPT !.currentAssistantMessage = s.currentAssistantMessage \o char]
         ELSE s

(* Variant: every error is swallowed *)
catchBlock_swallow(s, e) == s

(* Variant: the abort is not told apart from other errors *)
catchBlock_noAbortCheck(s, e) ==
    [s EXCEPT !.currentAssistantMessage = ErrorText(e)]

catchBlock(s, e) ==
    IF e.name # "AbortError"
    THEN [s EXCEPT !.currentAssistantMessage = ErrorText(e)]
    ELSE s

finallyBlock(s) ==
    IF ~signalAborted(s) THEN archiveCurrentMessage(s) ELSE s

(* String.prototype.trim: white space and line terminators are removed from *)
(* both ends of the typed text                                              *)
WhiteSpace == {"SP", "NL"}

RECURSIVE trimStart(_)
trimStart(text) ==
    IF text # <<>> /\ Head(text) \in WhiteSpace THEN trimStart(Tail(text)) ELSE text

RECURSIVE trimEnd(_)
trimEnd(text) ==
    IF text # <<>> /\ text[Len(text)] \in WhiteSpace
    THEN trimEnd(SubSeq(text, 1, Len(text) - 1))
    ELSE text

(* Variant: the typed text is taken as it is *)
trim_identity(text) == text

trim(text) == trimEnd(trimStart(text))

handleButtonClick(s, typed, registry) ==
    LET inputValue == trim(typed) IN
    IF inputValue = <<>> \/ s.currentRole = NoRole
    THEN s
    ELSE LET newMessages == Append(s.messageList, Msg("user", inputValue))
         IN  requestWithLatestMessage(
                 [s EXCEPT !.messageList = newMessages,
                           !.storage = saveCurrentMessages(s.storage, s.currentRole, newMessages)],
                 registry)

(* Variant: stop aborts without archiving *)
stopStreamFetch_abortOnly(s) ==
    IF s.controller # 0 THEN abort(s) ELSE s

stopStreamFetch(s) ==
    IF s.controller # 0 THEN archiveCurrentMessage(abort(s)) ELSE s

(* Variant: retry drops the last message whoever wrote it *)
retryLastFetch_anyLast(s, registry) ==
    IF Len(s.messageList) > 0 /\ s.currentRole # NoRole
    THEN LET newMessages == SubSeq(s.messageList, 1, Len(s.messageList) - 1)
         IN  requestWithLatestMessage(
                 [s EXCEPT !.messageList = newMessages,
                           !.storage = saveCurrentMessages(s.storage, s.currentRole, newMessages)],
                 registry)
    ELSE s

retryLastFetch(s, registry) ==
    IF Len(s.messageList) > 0 /\ s.currentRole # NoRole
         /\ s.messageList[Len(s.messageList)].role = "assistant"
    THEN LET newMessages == SubSeq(s.messageList, 1, Len(s.messageList) - 1)
         IN  requestWithLatestMessage(
                 [s EXCEPT !.messageList = newMessages,
                           !.storage = saveCurrentMessages(s.storage, s.currentRole, newMessages)],
                 registry)
    ELSE s

----------------------------------------------------------------------------
(* Scheduling.  The handlers and the transport's events are tasks of the    *)
(* event loop; the continuation of a request whose awaited promise was      *)
(* rejected by abort() is a microtask, run before any other task.           *)

microtaskPending == \E i \in 1..Len(reqs) : reqs[i].pc # "done" /\ reqs[i].aborted

(* Variant: the input controls are rendered while loading *)
inputShown_always == TRUE

inputShown == ~loading

stopShown == loading

showRetry ==
    /\ Len(messageList) > 0
    /\ messageList[Len(messageList)].role = "assistant"
    /\ ~loading

(* History bookkeeping on the request records: which handler aborted a      *)
(* request, how it ended, how many assistant messages its archives appended *)

Appended(s, t) == IF Len(t.messageList) > Len(s.messageList) THEN 1 ELSE 0

MarkAborted(rs, old, who) ==
    [i \in 1..Len(rs) |->
        IF i <= Len(old) /\ old[i].pc # "done" /\ ~old[i].aborted /\ rs[i].aborted
        THEN [rs[i] EXCEPT !.cause = who]
        ELSE rs[i]]

Finish(rs, i) == [rs EXCEPT ![i].pc = "done"]

Ended(rs, i, how, n) ==
    [outcome |-> how, cause |-> rs[i].cause, commits |-> rs[i].commits + n]

----------------------------------------------------------------------------
(* Initial state: the signals as created at lines 40-45, and a store left   *)
(* by an earlier session (absent or unparsable, or a map of histories).     *)

(* Settings: an object is a function from its property names to their       *)
(* values, a property that is undefined is not in the domain.               *)

ModelProvider == {"siliconflow", "302ai"}

DefaultTemperature == 70

defaultSetting ==
    ("openaiAPIKey" :> "") @@ ("customRule" :> "")
        @@ ("openaiAPITemperature" :> DefaultTemperature)

Keys == {"", "k", "sk-1"}

Rules == {"", "r"}

(* localStorage.getItem("setting"): null, a text that is not JSON, or the   *)
(* JSON text of an object                                                   *)
NoItem == [kind |-> "null", object |-> EmptyMap]

stringify(object) == [kind |-> "json", object |-> object]

LegacySetting ==
    ("openaiAPIKey" :> "k") @@ ("customRule" :> "")
        @@ ("openaiAPITemperature" :> DefaultTemperature)

SavedSetting ==
    ("modelProvider" :> "302ai") @@ ("siliconflowAPIKey" :> "")
        @@ ("threeohtwoAPIKey" :> "k") @@ defaultSetting

InitSettingStores ==
    {NoItem, [kind |-> "corrupt", object |-> EmptyMap],
     stringify(LegacySetting), stringify(SavedSetting)}

SettingAtConstruction ==
    /\ setting = defaultSetting
    /\ settingStore = NoItem
    /\ settingLoaded = FALSE

StoredHistory(r) ==
    <<welcomeMessage(r), Msg("user", <<"q">>), Msg("assistant", <<"x">>)>>

InitStorages ==
    {[valid |-> FALSE, map |-> EmptyMap],
     [valid |-> TRUE, map |-> EmptyMap],
     [valid |-> TRUE, map |-> ("A" :> StoredHistory("A"))],
     [valid |-> TRUE, map |-> ("A" :> <<>>) @@ ("B" :> StoredHistory("B"))]}

Init ==
    /\ roles = <<>>
    /\ currentRole = NoRole
    /\ messageList = <<>>
    /\ currentAssistantMessage = <<>>
    /\ loading = FALSE
    /\ controller = 0
    /\ storage \in InitStorages
    /\ reqs = <<>>
    /\ visited = {}
    /\ last = [outcome |-> "none", cause |-> "none", commits |-> 0]
    /\ SettingAtConstruction

----------------------------------------------------------------------------
(* Handlers *)

OnMount ==
    /\ roles = <<>>
    /\ ~microtaskPending
    /\ roles' = RoleList
    /\ Commit(handleRoleChange(Sess, RoleList[1],
                               [given |-> TRUE, map |-> loadChatHistory(storage)]))
    /\ visited' = visited \cup {RoleList[1]}
    /\ UNCHANGED settingVars
    /\ UNCHANGED last

SlideChange(newRole) ==
    /\ ~microtaskPending
    /\ \E i \in 1..Len(roles) : roles[i] = newRole
    /\ newRole # currentRole
    /\ LET t == handleRoleChange(Sess, newRole, [given |-> FALSE, map |-> EmptyMap])
       IN  Commit([t EXCEPT !.reqs = MarkAborted(t.reqs, reqs, "switch")])
    /\ visited' = visited \cup {newRole}
    /\ UNCHANGED settingVars
    /\ UNCHANGED <<roles, last>>

Send(typed) ==
    /\ ~microtaskPending
    /\ inputShown
    /\ (trim(typed) # <<>> /\ currentRole # NoRole) => Len(reqs) < MaxRequests
    /\ Commit(handleButtonClick(Sess, typed, roles))
    /\ UNCHANGED settingVars
    /\ UNCHANGED <<roles, visited, last>>

Clear ==
    /\ ~microtaskPending
    /\ inputShown
    /\ Commit(clear(Sess))
    /\ UNCHANGED settingVars
    /\ UNCHANGED <<roles, visited, last>>

Retry ==
    /\ ~microtaskPending
    /\ showRetry
    /\ Len(reqs) < MaxRequests
    /\ Commit(retryLastFetch(Sess, roles))
    /\ UNCHANGED settingVars
    /\ UNCHANGED <<roles, visited, last>>

Stop ==
    /\ ~microtaskPending
    /\ stopShown
    /\ LET t == stopStreamFetch(Sess)
           n == Appended(Sess, t)
           rs == MarkAborted(t.reqs, reqs, "stop")
       IN  Commit([t EXCEPT !.reqs =
                       IF controller # 0
                       THEN [rs EXCEPT ![controller].commits = @ + n]
                       ELSE rs])
    /\ UNCHANGED settingVars
    /\ UNCHANGED <<roles, visited, last>>

----------------------------------------------------------------------------
(* Steps of a request *)

FetchResponds(i, body) ==
    /\ ~microtaskPending
    /\ reqs[i].pc = "fetch"
    /\ reqs' = [reqs EXCEPT ![i].pc = "read", ![i].body = body, ![i].stream = body]
    /\ UNCHANGED settingVars
    /\ UNCHANGED <<roles, currentRole, messageList, currentAssistantMessage,
                   loading, controller, storage, visited, last>>

ReadChunk(i) ==
    /\ ~microtaskPending
    /\ reqs[i].pc = "read"
    /\ reqs[i].stream # <<>>
    /\ LET t == readChunk(Sess, Head(reqs[i].stream))
       IN  Commit([t EXCEPT !.reqs[i].stream = Tail(@)])
    /\ UNCHANGED settingVars
    /\ UNCHANGED <<roles, visited, last>>

ReadDone(i) ==
    /\ ~microtaskPending
    /\ reqs[i].pc = "read"
    /\ reqs[i].stream = <<>>
    /\ LET t == finallyBlock(Sess)
       IN  /\ Commit([t EXCEPT !.reqs = Finish(t.reqs, i)])
           /\ last' = Ended(t.reqs, i, "completed", Appended(Sess, t))
    /\ UNCHANGED settingVars
    /\ UNCHANGED <<roles, visited>>

RequestFails(i, e) ==
    /\ ~microtaskPending
    /\ \/ reqs[i].pc = "fetch" /\ e \in {StatusError, NoDataError, NetworkError}
       \/ reqs[i].pc = "read" /\ e = NetworkError
    /\ LET t == finallyBlock(catchBlock(Sess, e))
       IN  /\ Commit([t EXCEPT !.reqs = Finish(t.reqs, i)])
           /\ last' = Ended(t.reqs, i, "failed", Appended(Sess, t))
    /\ UNCHANGED settingVars
    /\ UNCHANGED <<roles, visited>>

AbortSettles(i) ==
    /\ reqs[i].pc # "done"
    /\ reqs[i].aborted
    /\ LET t == finallyBlock(catchBlock(Sess, AbortError))
       IN  /\ Commit([t EXCEPT !.reqs = Finish(t.reqs, i)])
           /\ last' = Ended(t.reqs, i, "aborted", Appended(Sess, t))
    /\ UNCHANGED settingVars
    /\ UNCHANGED <<roles, visited>>

Next ==
    \/ OnMount
    \/ \E r \in RoleIds : SlideChange(r)
    \/ \E v \in Inputs : Send(v)
    \/ Clear
    \/ Retry
    \/ Stop
    \/ \E i \in 1..Len(reqs) : \E body \in Streams : FetchResponds(i, body)
    \/ \E i \in 1..Len(reqs) : ReadChunk(i)
    \/ \E i \in 1..Len(reqs) : ReadDone(i)
    \/ \E i \in 1..Len(reqs) :
          \E e \in {StatusError, NoDataError, NetworkError} : RequestFails(i, e)
    \/ \E i \in 1..Len(reqs) : AbortSettles(i)

(* A second specification for request construction: the store holds a long *)
(* history of role A left by an earlier session (up to MaxStored turns,     *)
(* with or without the welcome message in front, some turns carrying the    *)
(* error marker); the component mounts and a request is started by send or  *)
(* by retry.                                                                *)

Tok == <<"t1", "t2", "t3", "t4", "t5", "t6", "t7", "t8", "t9", "t10",
         "t11", "t12", "t13", "t14", "t15", "t16", "t17", "t18", "t19", "t20">>

StoredTurn(k, welcomeFirst, marked) ==
    IF k = 1 /\ welcomeFirst
    THEN welcomeMessage("A")
    ELSE Msg(IF k % 2 = 1 THEN "assistant" ELSE "user",
             IF k \in marked THEN <<Tok[k], "Warn">> ELSE <<Tok[k]>>)

LongHistories ==
    {[k \in 1..n |-> StoredTurn(k, w, marked \cap (2..n))] :
        n \in 0..MaxStored, w \in BOOLEAN, marked \in SUBSET {2, 3, MaxStored - 1}}

(* Short histories in which the welcome text stands at any position, as an  *)
(* assistant message or as the text of a user message                       *)
WelcomeTurns == {welcomeMessage("A"), Msg("user", fc("A")), Msg("user", <<"q">>)}

WelcomeHistories ==
    UNION {[1..n -> WelcomeTurns] : n \in 1..3}

BuildInit ==
    /\ roles = <<>>
    /\ currentRole = NoRole
    /\ messageList = <<>>
    /\ currentAssistantMessage = <<>>
    /\ loading = FALSE
    /\ controller = 0
    /\ storage \in {[valid |-> TRUE, map |-> ("A" :> h)] :
                        h \in LongHistories \cup WelcomeHistories}
    /\ reqs = <<>>
    /\ visited = {}
    /\ last = [outcome |-> "none", cause |-> "none", commits |-> 0]
    /\ SettingAtConstruction

BuildNext ==
    \/ OnMount
    \/ \E v \in Inputs : Send(v)
    \/ Retry

BuildSpec == BuildInit /\ [][BuildNext]_vars

(* A third specification for the settings: the item "setting" is whatever an *)
(* earlier session, of this or of an older version, left in localStorage.   *)
(* The effect of line 84 rewrites the item each time the signal is set.     *)

provider(object) ==
    IF "modelProvider" \in DOMAIN object THEN object["modelProvider"] ELSE "undefined"

mergeWithDefault(parsed) == parsed @@ defaultSetting

SettingInit ==
    /\ roles = <<>>
    /\ currentRole = NoRole
    /\ messageList = <<>>
    /\ currentAssistantMessage = <<>>
    /\ loading = FALSE
    /\ controller = 0
    /\ storage = [valid |-> FALSE, map |-> EmptyMap]
    /\ reqs = <<>>
    /\ visited = {}
    /\ last = [outcome |-> "none", cause |-> "none", commits |-> 0]
    /\ setting = defaultSetting
    /\ settingStore \in InitSettingStores
    /\ settingLoaded = FALSE

setSetting(object) ==
    /\ setting' = object
    /\ settingStore' = stringify(object)

LoadSetting ==
    /\ ~settingLoaded
    /\ settingLoaded' = TRUE
    /\ setSetting(IF settingStore.kind = "json"
                  THEN mergeWithDefault(settingStore.object)
                  ELSE setting)
    /\ UNCHANGED sessionVars

handleProviderChange(p) ==
    /\ settingLoaded
    /\ provider(setting) # p
    /\ setSetting(("modelProvider" :> p) @@ setting)
    /\ UNCHANGED <<sessionVars, settingLoaded>>

SiliconflowKeyInput(v) ==
    /\ settingLoaded
    /\ provider(setting) = "siliconflow"
    /\ setSetting(("siliconflowAPIKey" :> v) @@ setting)
    /\ UNCHANGED <<sessionVars, settingLoaded>>

ThreeohtwoKeyInput(v) ==
    /\ settingLoaded
    /\ provider(setting) = "302ai"
    /\ setSetting(("threeohtwoAPIKey" :> v) @@ setting)
    /\ UNCHANGED <<sessionVars, settingLoaded>>

CustomRuleInput(v) ==
    /\ settingLoaded
    /\ setSetting(("customRule" :> v) @@ setting)
    /\ UNCHANGED <<sessionVars, settingLoaded>>

SettingNext ==
    \/ LoadSetting
    \/ \E p \in ModelProvider : handleProviderChange(p)
    \/ \E v \in Keys : SiliconflowKeyInput(v)
    \/ \E v \in Keys : ThreeohtwoKeyInput(v)
    \/ \E v \in Rules : CustomRuleInput(v)

SettingSpec == SettingInit /\ [][SettingNext]_vars

Spec == Init /\ [][Next]_vars

----------------------------------------------------------------------------
(* Vocabulary of the properties *)

Live == {i \in 1..Len(reqs) : reqs[i].pc # "done"}

InFlight == controller # 0 /\ reqs[controller].pc # "done"

Entry(st, r) ==
    LET h == loadChatHistory(st) IN IF r \in DOMAIN h THEN <<h[r]>> ELSE <<>>

IsError(m) ==
    m.role = "assistant" /\ Len(m.content) > 0 /\ m.content[1] = "ErrPrefix"

ErrCount(list) == Cardinality({k \in 1..Len(list) : IsError(list[k])})

EndsWith(list, m) == Len(list) > 0 /\ list[Len(list)] = m

(* Steps, told by what they do to a request record *)

Aborting(i, who) ==
    /\ reqs[i].pc # "done"
    /\ ~reqs[i].aborted
    /\ reqs'[i].aborted
    /\ reqs'[i].cause = who

Settling(i, how) ==
    /\ reqs[i].pc # "done"
    /\ reqs'[i].pc = "done"
    /\ last'.outcome = how

SwitchingTo(r) == currentRole # r /\ currentRole' = r

----------------------------------------------------------------------------
(* C1: no request ever has more than one assistant message appended on its *)
(* behalf: the stop handler's archive and the request's own finally-path    *)
(* archive never both append, whichever way the request ends.               *)
C1_AtMostOneCommit ==
    /\ \A i \in Live : reqs[i].commits <= 1
    /\ last.commits <= 1

C1_Witness ==
    last.outcome = "aborted" /\ last.cause = "stop" /\ last.commits = 1

(* C2: a stop pressed while a request is in flight with non-empty buffer B  *)
(* appends exactly the assistant message B to the list, persists that list  *)
(* for the current role and clears loading; the stopped request's own       *)
(* completion path then changes neither the list nor the store.             *)
C2_StopArchivesOnce ==
    [][\A i \in 1..Len(reqs) :
          /\ (Aborting(i, "stop") /\ currentAssistantMessage # <<>>) =>
                /\ messageList' = Append(messageList,
                                         Msg("assistant", currentAssistantMessage))
                /\ Persisted(storage', currentRole) = messageList'
                /\ currentRole' = currentRole
                /\ ~loading'
          /\ (Settling(i, "aborted") /\ reqs[i].cause = "stop") =>
                /\ messageList' = messageList
                /\ storage' = storage
                /\ loading' = loading]_vars

C2_Witness ==
    /\ \E i \in Live : reqs[i].cause = "stop" /\ reqs[i].commits = 1
    /\ ~loading
    /\ Len(messageList) > 0
    /\ messageList[Len(messageList)].role = "assistant"
    /\ Persisted(storage, currentRole) = messageList

(* C3: whenever a request ends (completed, stopped or failed) the session   *)
(* is idle: loading is false, the cancellation handle is cleared and the    *)
(* buffer is empty.                                                         *)
C3_RequestEndsIdle ==
    [][\A i \in 1..Len(reqs) :
          (reqs[i].pc # "done" /\ reqs'[i].pc = "done") =>
              /\ ~loading'
              /\ controller' = 0
              /\ currentAssistantMessage' = <<>>]_vars

(* C4: at most one request is outstanding at any time, and whenever the     *)
(* controls that start a request are available no request is outstanding    *)
(* other than one already aborted and about to settle.                      *)
C4_OneOutstanding ==
    /\ Cardinality(Live) <= 1
    /\ ~loading => \A i \in Live : reqs[i].aborted

C4_Witness ==
    /\ Len(reqs) >= 2
    /\ reqs[1].pc = "done"
    /\ reqs[2].pc = "read"
    /\ ~reqs[2].aborted

(* C5: when a request is cancelled (by stop or by a role switch) while the  *)
(* buffer is non-empty, the buffered text is archived as the last assistant *)
(* message of the persisted history of the role the request was issued for. *)
C5_CancelPreservesText ==
    [][\A i \in 1..Len(reqs) :
          (/\ Aborting(i, "stop") \/ Aborting(i, "switch")
           /\ currentAssistantMessage # <<>>) =>
              EndsWith(Persisted(storage', reqs[i].role),
                       Msg("assistant", currentAssistantMessage))]_vars

(* C6: every role that has been the active role has a non-empty persisted   *)
(* history.                                                                 *)
C6_VisitedNonEmpty ==
    \A r \in visited : Persisted(storage, r) # <<>>

(* C7: a step changes the persisted entry of a role only if that role is    *)
(* the current role before the step or after it.                            *)
C7_RoleIsolation ==
    [][\A r \in RoleIds :
          Entry(storage', r) # Entry(storage, r) =>
              (currentRole = r \/ currentRole' = r)]_vars

C7_Witness ==
    /\ currentRole = "B"
    /\ Len(messageList) > 1
    /\ Persisted(storage, "B") = messageList
    /\ Len(Persisted(storage, "A")) > 1
    /\ Persisted(storage, "A") # messageList

(* C8: switching to a role whose persisted history is missing or empty      *)
(* sets the list to exactly that role's welcome message and persists that   *)
(* one-message list under the role in the same step.                        *)
C8_SwitchSeedsWelcome ==
    [][\A r \in RoleIds :
          (SwitchingTo(r) /\ Persisted(storage, r) = <<>>) =>
              /\ currentRole' = r
              /\ messageList' = <<welcomeMessage(r)>>
              /\ Entry(storage', r) = <<messageList'>>]_vars

C8_Witness ==
    /\ currentRole = "B"
    /\ messageList = <<welcomeMessage("B")>>
    /\ Entry(storage, "B") = <<messageList>>
    /\ "A" \in visited
    /\ Len(reqs) = 0

(* C9: a request that fails for a reason other than an abort appends an     *)
(* assistant message holding the failure text to the list and persists the  *)
(* list for the current role.                                               *)
C9_FailureArchived ==
    [][\A i \in 1..Len(reqs) :
          Settling(i, "failed") =>
              /\ \E e \in {StatusError, NoDataError, NetworkError} :
                    messageList' = Append(messageList, Msg("assistant", ErrorText(e)))
              /\ currentRole' = currentRole
              /\ Persisted(storage', currentRole) = messageList']_vars

C9_Witness ==
    /\ last.outcome = "failed"
    /\ last.commits = 1
    /\ Len(messageList) > 0
    /\ IsError(messageList[Len(messageList)])
    /\ Persisted(storage, currentRole) = messageList

(* C10: a stop, a role switch, and the settling of a request they aborted   *)
(* add no failure message to the list or to any role's persisted history;   *)
(* whatever they append is the partial text that was in the buffer.         *)
C10_AbortIsSilent ==
    [][(\E i \in 1..Len(reqs) :
           Aborting(i, "stop") \/ Aborting(i, "switch") \/ Settling(i, "aborted")) =>
          /\ \A r \in RoleIds :
                ErrCount(Persisted(storage', r)) <= ErrCount(Persisted(storage, r))
          /\ ErrCount(messageList') <=
                ErrCount(IF currentRole' = currentRole
                         THEN messageList
                         ELSE Persisted(storage, currentRole'))
          /\ (currentRole' = currentRole /\ messageList' # messageList) =>
                messageList' = Append(messageList,
                                      Msg("assistant", currentAssistantMessage))]_vars

C10_Witness ==
    /\ last.outcome = "aborted"
    /\ last.cause = "switch"
    /\ ErrCount(messageList) = 0


(* C11: no request is built with a message that was archived as the result *)
(* of a failed request: the message sequence of every outstanding request  *)
(* holds no failure message.                                                *)
C11_FailuresNotResent ==
    \A i \in Live : \A k \in 1..Len(reqs[i].messages) : ~IsError(reqs[i].messages[k])


(* Request construction, told by the step that starts a request *)

Starting == Len(reqs') = Len(reqs) + 1

Built == reqs'[Len(reqs')].messages

Pick(list, keep) ==
    LET F[k \in 0..Len(list)] ==
            IF k = 0 THEN <<>>
            ELSE IF k \in keep THEN Append(F[k - 1], list[k]) ELSE F[k - 1]
    IN  F[Len(list)]

HasWarn(m) == \E j \in 1..Len(m.content) : m.content[j] = "Warn"

Remaining(list, r) ==
    Pick(list, {k \in 1..Len(list) :
                    /\ ~(k = 1 /\ list[1] = welcomeMessage(r))
                    /\ ~HasWarn(list[k])})

RECURSIVE IsSubseq(_, _)
IsSubseq(a, b) ==
    IF a = <<>> THEN TRUE
    ELSE IF b = <<>> THEN FALSE
    ELSE IF Head(a) = Head(b) THEN IsSubseq(Tail(a), Tail(b))
    ELSE IsSubseq(a, Tail(b))

(* C12, as claimed: a request built from a message list of more than 15    *)
(* entries holds exactly the first three and the last twelve entries of     *)
(* that list.                                                               *)
C12_CapOfList ==
    [][(Starting /\ Len(messageList') > 15) =>
          Built = SubSeq(messageList', 1, 3)
                    \o SubSeq(messageList', Len(messageList') - 11, Len(messageList'))]_vars

(* C12, amended: when more than 15 entries remain after the welcome drop   *)
(* and the error-marker filter, the request holds exactly 15 messages: the  *)
(* first three and the last twelve of the remaining entries, in order.      *)
C12_CapOfRemaining ==
    [][Starting =>
          LET rem == Remaining(messageList', currentRole')
          IN  Len(rem) > 15 =>
                /\ Len(Built) = 15
                /\ Built = SubSeq(rem, 1, 3) \o SubSeq(rem, Len(rem) - 11, Len(rem))]_vars

C12_Witness ==
    \E i \in Live :
        /\ Len(Remaining(messageList, currentRole)) > 15
        /\ Len(reqs[i].messages) = 15
        /\ reqs[i].messages[4] # Remaining(messageList, currentRole)[4]

(* C13: no entry of the request holds the error marker, and the request is *)
(* an order-preserving subsequence of the message list it was built from.   *)
C13_MarkerFiltered ==
    [][Starting =>
          /\ \A k \in 1..Len(Built) : ~HasWarn(Built[k])
          /\ IsSubseq(Built, messageList')]_vars

C13_Witness ==
    \E i \in Live :
        /\ \E k \in 1..Len(messageList) : HasWarn(messageList[k])
        /\ Len(reqs[i].messages) > 1
        /\ Len(reqs[i].messages) < Len(messageList)

(* C20: a request never holds more than 15 messages.                        *)
C20_AtMostFifteen ==
    [][Starting => Len(Built) <= 15]_vars

C20_Witness ==
    \E i \in Live :
        /\ Len(messageList) >= 17
        /\ Len(reqs[i].messages) = 15


(* Streaming, told by the body the transport delivers *)

RECURSIVE Flat(_)
Flat(chunks) == IF chunks = <<>> THEN <<>> ELSE Head(chunks) \o Flat(Tail(chunks))

Delivered(rq) == SubSeq(rq.body, 1, Len(rq.body) - Len(rq.stream))

EndsInNewline(text) == text # <<>> /\ text[Len(text)] = "NL"

HasSuppressed(chunks) ==
    \E k \in 2..Len(chunks) :
        chunks[k] = <<"NL">> /\ EndsInNewline(Flat(SubSeq(chunks, 1, k - 1)))

(* C14: while a request reads a body c1..cn (n >= 1, no chunk a suppressed *)
(* lone newline) the buffer is the concatenation of the chunks delivered so *)
(* far, in arrival order; when the request completes normally exactly one   *)
(* assistant message, the concatenation c1..cn, is appended and persisted.  *)
C14_ChunksInOrder ==
    [][\A i \in 1..Len(reqs) :
          (reqs[i].pc = "read" /\ reqs[i].body # <<>> /\ ~HasSuppressed(reqs[i].body)) =>
              /\ (reqs'[i].pc = "read" /\ ~reqs'[i].aborted) =>
                    currentAssistantMessage' = Flat(Delivered(reqs'[i]))
              /\ Settling(i, "completed") =>
                    /\ messageList' = Append(messageList,
                                             Msg("assistant", Flat(reqs[i].body)))
                    /\ Persisted(storage', currentRole') = messageList'
                    /\ last'.commits = 1]_vars

C14_Witness ==
    /\ last.outcome = "completed"
    /\ last.commits = 1
    /\ EndsWith(messageList, Msg("assistant", <<"x", "y">>))
    /\ Persisted(storage, currentRole) = messageList


(* C15: in every reachable state, the retry handler, when the list's last   *)
(* message is an assistant message and a role is active, removes exactly    *)
(* that message, keeps the ones before it, persists the shorter list under  *)
(* the current role and issues exactly one request built from it; in every  *)
(* other state it changes nothing and issues no request.                    *)
C15_RetryTruncates ==
    LET t == retryLastFetch(Sess, roles)
        n == Len(messageList)
    IN  IF n > 0 /\ currentRole # NoRole /\ messageList[n].role = "assistant"
        THEN /\ Len(t.messageList) = n - 1
             /\ \A k \in 1..(n - 1) : t.messageList[k] = messageList[k]
             /\ Persisted(t.storage, currentRole) = t.messageList
             /\ \A r \in RoleIds \ {currentRole} :
                    Entry(t.storage, r) = Entry(storage, r)
             /\ Len(t.reqs) = Len(reqs) + 1
             /\ \A k \in 1..Len(reqs) : t.reqs[k] = reqs[k]
             /\ t.reqs[Len(t.reqs)].pc = "fetch"
             /\ t.reqs[Len(t.reqs)].messages =
                    requestMessageList(t.messageList, currentRole, roles)
             /\ t.controller = Len(t.reqs)
        ELSE t = Sess

C15_Witness ==
    /\ currentRole # NoRole
    /\ messageList = <<>>
    /\ Persisted(storage, currentRole) = <<>>
    /\ InFlight
    /\ reqs[controller].messages = <<>>


IsBlank(text) == \A k \in 1..Len(text) : text[k] \in {"SP", "NL"}

(* C16: in every reachable state and for every typed text, the send handler *)
(* given empty or whitespace-only text, or no active role, leaves the list, *)
(* the persisted history, the loading flag and the cancellation handle as   *)
(* they are and issues no request; otherwise it appends exactly one user    *)
(* message, persists the list under the current role and issues exactly one *)
(* request.                                                                 *)
C16_SendRejectsBlank ==
    \A typed \in Inputs :
        LET t == handleButtonClick(Sess, typed, roles)
            n == Len(messageList)
        IN  IF IsBlank(typed) \/ currentRole = NoRole
            THEN /\ t.messageList = messageList
                 /\ t.storage = storage
                 /\ t.loading = loading
                 /\ t.controller = controller
                 /\ t.reqs = reqs
            ELSE /\ Len(t.messageList) = n + 1
                 /\ SubSeq(t.messageList, 1, n) = messageList
                 /\ t.messageList[n + 1].role = "user"
                 /\ ~IsBlank(t.messageList[n + 1].content)
                 /\ Persisted(t.storage, currentRole) = t.messageList
                 /\ Len(t.reqs) = Len(reqs) + 1
                 /\ SubSeq(t.reqs, 1, Len(reqs)) = reqs
                 /\ t.reqs[Len(t.reqs)].pc = "fetch"
                 /\ t.controller = Len(t.reqs)
                 /\ t.loading

C16_Witness ==
    /\ currentRole # NoRole
    /\ Len(reqs) = 1
    /\ reqs[1].pc = "fetch"
    /\ controller = 1
    /\ messageList = Append(StoredHistory(currentRole), Msg("user", <<"q">>))
    /\ Persisted(storage, currentRole) = messageList


(* C17: in every reachable state with an active role R, the clear handler   *)
(* leaves exactly one assistant message holding R's welcome text as the     *)
(* current list, has that list persisted under R by the same call, and      *)
(* leaves the persisted history of every other role as it was.              *)
C17_ClearResetsRoleOnly ==
    LET t == clear(Sess)
    IN  currentRole # NoRole =>
            /\ t.messageList = <<[role |-> "assistant", content |-> fc(currentRole)]>>
            /\ Persisted(t.storage, currentRole) = t.messageList
            /\ \A r \in RoleIds \ {currentRole} :
                   Entry(t.storage, r) = Entry(storage, r)
            /\ t.currentRole = currentRole

C17_Witness ==
    /\ currentRole # NoRole
    /\ visited = {currentRole}
    /\ Len(reqs) >= 1
    /\ messageList = <<welcomeMessage(currentRole)>>
    /\ Persisted(storage, currentRole) = messageList
    /\ \E r \in RoleIds \ {currentRole} : Entry(storage, r) # <<>>


(* C19: a step that changes the current role, from whatever state (idle,    *)
(* sending, streaming with text in the buffer), ends with the partial       *)
(* buffer empty, the loading flag false and the cancellation handle         *)
(* cleared, and every request outstanding before it has been aborted.       *)
C19_SwitchResetsTransients ==
    [][\A r \in RoleIds :
          SwitchingTo(r) =>
              /\ currentAssistantMessage' = <<>>
              /\ ~loading'
              /\ controller' = 0
              /\ \A i \in Live : reqs'[i].aborted]_vars

C19_Witness ==
    /\ currentAssistantMessage = <<>>
    /\ ~loading
    /\ controller = 0
    /\ \E i \in Live :
          /\ reqs[i].aborted
          /\ reqs[i].cause = "switch"
          /\ reqs[i].pc = "read"
          /\ Delivered(reqs[i]) # <<>>
          /\ reqs[i].role # currentRole


(* C18: in every reachable settings state (the default state at start, the  *)
(* state after the saved settings were loaded and merged with the defaults, *)
(* the state after any settings edits) the provider selection holds exactly *)
(* one of the enumerated providers.                                         *)
C18_OneProviderActive ==
    /\ "modelProvider" \in DOMAIN setting
    /\ setting["modelProvider"] \in ModelProvider


(* C21: the request is built from the list without its first entry exactly  *)
(* when that entry is an assistant message whose content is the active      *)
(* role's welcome text; an entry with the welcome text at any other         *)
(* position, and a first entry that is not the welcome message, pass the    *)
(* drop step and are kept (subject only to the marker filter and the cap).  *)
C21_OnlyLeadingWelcomeDropped ==
    [][Starting =>
          LET list == messageList'
              leading == /\ Len(list) > 0
                         /\ list[1].role = "assistant"
                         /\ list[1].content = fc(currentRole')
              rest == IF leading THEN SubSeq(list, 2, Len(list)) ELSE list
              kept == Pick(rest, {k \in 1..Len(rest) : ~HasWarn(rest[k])})
          IN  /\ Len(kept) <= 15 => Built = kept
              /\ Len(kept) > 0 => (Len(Built) > 0 /\ Built[1] = kept[1])]_vars

C21_Witness ==
    \E i \in Live :
        /\ Len(messageList) > 2
        /\ messageList[1] = welcomeMessage(currentRole)
        /\ \E k \in 2..Len(messageList) : messageList[k] = welcomeMessage(currentRole)
        /\ reqs[i].messages = Tail(messageList)


(* C22: in every state between two handlers in which a role is active, the  *)
(* persisted history entry of the current role equals the current message   *)
(* list: role switch, send, archive, retry and clear each write the list    *)
(* they set under the current role before they return.                      *)
C22_StoreMirrorsList ==
    currentRole # NoRole =>
        /\ Entry(storage, currentRole) = <<messageList>>
        /\ Persisted(storage, currentRole) = messageList

C22_Witness ==
    /\ currentRole # NoRole
    /\ Cardinality(visited) = 2
    /\ last.outcome = "completed"
    /\ Len(messageList) >= 3
    /\ messageList[Len(messageList)].role = "assistant"
    /\ Entry(storage, currentRole) = <<messageList>>


(* C23: once the current role is no longer the role a request was issued    *)
(* for, every remaining step of that request (a chunk read, its catch       *)
(* branch, its finally-path archive) leaves the message list and the store  *)
(* as they are, so nothing it produced reaches the new role's list or       *)
(* history, and leaves the buffer, the loading flag, the cancellation       *)
(* handle and every other outstanding request as they are.                  *)
C23_StaleRequestIsInert ==
    [][\A i \in 1..Len(reqs) :
          (reqs[i].pc # "done" /\ reqs[i].role # currentRole /\ reqs'[i] # reqs[i]) =>
              /\ messageList' = messageList
              /\ storage' = storage
              /\ currentAssistantMessage' = currentAssistantMessage
              /\ loading' = loading
              /\ controller' = controller
              /\ \A j \in Live \ {i} : reqs'[j] = reqs[j]]_vars

C23_Witness ==
    /\ last.outcome = "aborted"
    /\ last.cause = "switch"
    /\ InFlight
    /\ reqs[controller].role = currentRole
    /\ reqs[controller].pc = "read"
    /\ currentAssistantMessage # <<>>
    /\ loading
    /\ \A k \in 1..Len(messageList) : messageList[k].role = "assistant" =>
           messageList[k] = welcomeMessage(currentRole)

====
